---- MODULE Spec2Model ----
(***************************************************************************)
(* A model of getllm's model-metadata synchronisation and caching layer:   *)
(* the Hugging Face and Ollama cache refreshers, the cache loaders, the    *)
(* metadata store, the scraper's merge step, search and list.              *)
(*                                                                         *)
(* Text is modelled as a sequence of one-character strings, so that        *)
(* lower-casing, substring tests and splitting are computed, not assumed.  *)
(* A cache file is modelled as the sequence of JSON tokens written to it,  *)
(* so that a partially written file is a proper prefix of a document.      *)
(***************************************************************************)
EXTENDS Integers, Sequences, FiniteSets, TLC

VARIABLES
    files,   \* file name -> NoFile or the token sequence the file holds
    pre,     \* content of the file the last operation worked on, before it
    last,    \* description of the last completed operation and its result
    pc,      \* position of the process that is saving a cache file
    wq,      \* tokens a save in progress has still to write
    meta,    \* the metadata store: model name -> entry
    now,     \* the wall clock, in seconds
    seen,    \* what the last load of a concurrent reader found and returned
    env,     \* the central and the local .env file: NoEnv or its text
    srv,     \* one OllamaServer instance, its children and the local Ollama API
    mon,     \* the Ollama monitor loop: remembered fingerprint, snapshots written
    scr      \* a scrape_all_models call in progress: where its loops are

vars == <<files, pre, last, pc, wq, meta, now, seen, env, srv, mon, scr>>

\* ------------------------------------------------------------------ bounds

MaxBatch == 2

MaxClock == 2

MaxLimit == 2
MaxChildren == 2
MaxSnapshots == 2

\* ------------------------------------------------------------------- text

\* Python's None, for a field that holds JSON null.
None == <<"<None>">>

Str_a == <<"a">>
Str_b == <<"b">>
Str_c == <<"c">>
Str_1 == <<"1">>
Str_2 == <<"2">>
Str_gguf == <<"g", "g", "u", "f">>

RECURSIVE SeqsUpTo(_, _)
\* All sequences over S of length at most n.
SeqsUpTo(S, n) ==
    IF n = 0 THEN {<<>>}
    ELSE LET shorter == SeqsUpTo(S, n - 1)
         IN  shorter \cup {Append(q, x) : q \in shorter, x \in S}

\* s.split('/')[-1]: the text after the last '/', all of s when there is none.
RECURSIVE LastSegment(_)
LastSegment(s) ==
    IF \A i \in 1..Len(s) : s[i] # "/" THEN s
    ELSE LastSegment(Tail(s))

InList(x, list) == \E i \in 1..Len(list) : list[i] = x

\* ------------------------------------------------------------ cache files

FileNames == {"hf", "ollama", "models"}

\* os.path.exists is false.
NoFile == <<[k |-> "nofile"]>>

TokOpenList == [k |-> "["]
TokCloseList == [k |-> "]"]
TokOpenObj == [k |-> "{"]
TokCloseObj == [k |-> "}"]
TokDict(r) == [k |-> "dict", r |-> r]
TokScalar == [k |-> "scalar"]

\* json.dump(models, f): the document of a list of dicts, token by token.
JsonDumpList(models) ==
    <<TokOpenList>> \o [i \in 1..Len(models) |-> TokDict(models[i])] \o <<TokCloseList>>

IsListDoc(f) ==
    /\ Len(f) >= 2
    /\ f[1] = TokOpenList
    /\ f[Len(f)] = TokCloseList
    /\ \A i \in 2..(Len(f) - 1) : f[i].k \in {"dict", "scalar"}

IsObjDoc(f) ==
    /\ Len(f) >= 2
    /\ f[1] = TokOpenObj
    /\ f[Len(f)] = TokCloseObj
    /\ \A i \in 2..(Len(f) - 1) : f[i].k \in {"dict", "scalar"}

IsScalarDoc(f) == f = <<TokScalar>>

\* json.load(f): the parsed value, or a JSONDecodeError for anything that is
\* not a complete document (an empty or truncated file among them).
JsonLoad(f) ==
    IF IsListDoc(f) THEN [kind |-> "list", items |-> SubSeq(f, 2, Len(f) - 1)]
    ELSE IF IsObjDoc(f) THEN [kind |-> "object", items |-> SubSeq(f, 2, Len(f) - 1)]
    ELSE IF IsScalarDoc(f) THEN [kind |-> "scalar", items |-> <<>>]
    ELSE [kind |-> "error", items |-> <<>>]

\* The dicts of a file that holds a list of dicts, in file order.
RecordsOf(f) ==
    LET v == JsonLoad(f)
        dicts == SelectSeq(v.items, LAMBDA t : t.k = "dict")
    IN  IF v.kind = "list" THEN [i \in 1..Len(dicts) |-> dicts[i].r] ELSE <<>>

\* ------------------------------------------- Hugging Face cache (models/)

\* A dict key that is not present.
Absent == <<"<absent>">>

\* Python truthiness of a text field: '' and None are falsy, so is a missing key
\* where the code tests `key not in model or not model[key]`.
Falsy(x) == x \in {<<>>, None, Absent}

\* dict.get(key, default) for a key that may be absent.
GetOr(x, default) == IF x = Absent THEN default ELSE x

\* One dict of fetch_from_api's list. author, downloads and likes are carried
\* through unread and are left out.
ApiModel(model) ==
    [id |-> GetOr(model.modelId, <<>>),
     name |-> LastSegment(GetOr(model.modelId, <<>>)),
     description |-> model.description,
     tags |-> IF InList(Str_gguf, model.tags) THEN model.tags
              ELSE model.tags \o <<Str_gguf>>]

ApiFail == [kind |-> "fail", models |-> <<>>]
ApiOk(raws) == [kind |-> "ok", models |-> raws]

\* model.get('modelId', '').split('/') raises when modelId is null.
ApiModelRaises(model) == model.modelId = None

\* fetch_from_api: (success, models); any exception, in the request or in the
\* loop over the entries, gives (False, []).
fetch_from_api(api) ==
    IF api.kind = "fail" \/ \E i \in 1..Len(api.models) : ApiModelRaises(api.models[i])
    THEN [success |-> FALSE, models |-> <<>>]
    ELSE [success |-> TRUE,
          models |-> [i \in 1..Len(api.models) |-> ApiModel(api.models[i])]]

WebFail == [kind |-> "fail", cards |-> <<>>]
WebOk(cards) == [kind |-> "ok", cards |-> cards]

\* One card of the search page whose detail request answered 200. The size
\* label the code adds is left out.
WebModel(card) ==
    [id |-> card.id,
     name |-> LastSegment(GetOr(card.data.modelId, <<>>)),
     description |-> card.data.description,
     tags |-> card.data.tags]

\* fetch_from_web: a card whose processing raises, or whose detail request does
\* not answer 200, is skipped; no model at all is a failure.
fetch_from_web(web) ==
    IF web.kind = "fail" THEN [success |-> FALSE, models |-> <<>>]
    ELSE LET good == SelectSeq(web.cards, LAMBDA c : c.ok)
             models == [i \in 1..Len(good) |-> WebModel(good[i])]
         IN  [success |-> models # <<>>, models |-> models]

\* A key-by-key overwrite of the old list: what a merge would write.
RECURSIVE MergeByKey(_, _)
MergeByKey(old, models) ==
    IF models = <<>> THEN old
    ELSE LET m == Head(models)
             hit == \E i \in 1..Len(old) : old[i].id = m.id
             merged == IF hit
                       THEN [i \in 1..Len(old) |-> IF old[i].id = m.id THEN m ELSE old[i]]
                       ELSE Append(old, m)
         IN  MergeByKey(merged, Tail(models))

WriteCacheMerged(old, models) == JsonDumpList(MergeByKey(RecordsOf(old), models))

\* open(path, 'w') and json.dump(models, f): the file is replaced as a whole.
WriteCache(old, models) == JsonDumpList(models)

\* "Try API first", then "fall back to web scraping if API fails".
FetchModels(api, web) ==
    LET a == fetch_from_api(api)
    IN  IF ~a.success \/ a.models = <<>> THEN fetch_from_web(web) ELSE a

\* update_huggingface_models_cache's main logic. io is "ok" or "open_error"
\* (open raises an IOError before it touches the file).
update_huggingface_models_cache(file, api, web, io) ==
    LET r == FetchModels(api, web)
    IN  IF r.models # <<>>
        THEN IF io = "ok"
             THEN [success |-> TRUE, file |-> WriteCache(file, r.models),
                   models |-> r.models, failed |-> FALSE]
             ELSE [success |-> FALSE, file |-> file,
                   models |-> r.models, failed |-> FALSE]
        ELSE [success |-> r.success, file |-> file, models |-> <<>>,
              failed |-> api.kind = "fail" /\ web.kind = "fail"]

\* load_huggingface_models_from_cache of models/huggingface.py.
load_huggingface_models_from_cache(f) ==
    IF f = NoFile THEN <<>>
    ELSE LET v == JsonLoad(f)
             kept == SelectSeq(v.items, LAMBDA t : t.k = "dict" /\ ~Falsy(t.r.id))
         IN  IF v.kind # "list" THEN <<>>
             ELSE [i \in 1..Len(kept) |->
                     LET m == kept[i].r
                     IN  [m EXCEPT !.name = IF Falsy(m.name) THEN LastSegment(m.id) ELSE m.name,
                                   !.tags = GetOr(m.tags, <<>>)]]

\* ------------------------------------- Ollama cache (getllm/scrapers/)

PageLimit == 3

PageUnreachable == [kind |-> "unreachable", elems |-> <<>>]
PageTimeout == [kind |-> "timeout", elems |-> <<>>]
PageOk(elems) == [kind |-> "ok", elems |-> elems]

\* The dict get_models builds from one model-item element.
OllamaModel(e) ==
    LET tag == IF e.tag = Absent THEN <<"l", "a", "t", "e", "s", "t">> ELSE e.tag
    IN  [name |-> e.name, tag |-> tag, full_name |-> e.name \o <<":">> \o tag,
         source |-> "ollama", description |-> e.description]

PageModels(elems) ==
    LET named == SelectSeq(elems, LAMBDA e : e.h3)
    IN  [i \in 1..Len(named) |-> OllamaModel(named[i])]

\* OllamaModelsScraper.get_models: pages[p] is what page p answers. driver.get
\* raising ends the call with the exception; a wait that times out, or a page
\* without model items, ends the loop and returns what was collected so far.
RECURSIVE get_models_from(_, _, _)
get_models_from(pages, page, models) ==
    LET o == pages[page]
        collected == models \o PageModels(o.elems)
    IN  IF o.kind = "unreachable" THEN [raised |-> TRUE, models |-> <<>>]
        ELSE IF o.kind = "timeout" \/ o.elems = <<>>
             THEN [raised |-> FALSE, models |-> models]
        ELSE IF page + 1 > PageLimit THEN [raised |-> FALSE, models |-> collected]
        ELSE get_models_from(pages, page + 1, collected)

get_models(pages) == get_models_from(pages, 1, <<>>)

\* The pages get_models visits.
RECURSIVE Visited(_, _)
Visited(pages, page) ==
    LET o == pages[page]
    IN  IF o.kind # "ok" \/ o.elems = <<>> \/ page + 1 > PageLimit THEN {page}
        ELSE {page} \cup Visited(pages, page + 1)

\* The adapter failed: a visited page did not load.
PagesFailed(pages) == \E p \in Visited(pages, 1) : pages[p].kind # "ok"

\* OllamaModelsScraper.save_models_to_file.
save_models_to_file(file, pages, io) ==
    LET g == get_models(pages)
    IN  IF g.raised \/ io # "ok"
        THEN [success |-> FALSE, file |-> file, models |-> g.models]
        ELSE [success |-> TRUE, file |-> JsonDumpList(g.models), models |-> g.models]

\* update_ollama_models_cache: driver is FALSE when the browser cannot be set up.
update_ollama_models_cache(file, driver, pages, io) ==
    IF ~driver THEN [success |-> FALSE, file |-> file, models |-> <<>>]
    ELSE save_models_to_file(file, pages, io)

\* ----------------------------------------------------- initial state

NoOp == [op |-> "none"]

NoMeta == [n \in {} |-> NoOp]

\* A .env file that does not exist (Path.exists() is false).
NoEnv == <<"<no file>">>

\* OllamaServer.__init__: no process handle. children maps every child this
\* instance has spawned to "alive" or "exited"; call is the call in progress.
NoServer ==
    [process |-> 0, children |-> <<>>, call |-> "none", polls |-> 0,
     observed |-> FALSE, spawned |-> 0, ret |-> "none", external |-> FALSE]

\* No scrape_all_models call has been made.
NoScrape ==
    [phase |-> "idle", page |-> 1, visited |-> 0, yielded |-> TRUE, category |-> 1,
     category_visits |-> <<>>]

\* The monitor loop before its first poll: last_fingerprint = None.
NoFingerprint == [none |-> TRUE]

NoMonitor == [prev_fingerprint |-> NoFingerprint, count |-> 0, latest |-> <<>>]

InitIdle ==
    /\ files = [n \in FileNames |-> NoFile]
    /\ pre = NoFile
    /\ last = NoOp
    /\ pc = "idle"
    /\ wq = <<>>
    /\ meta = NoMeta
    /\ now = 0
    /\ seen = NoOp
    /\ env = [central |-> NoEnv, local |-> NoEnv]
    /\ srv = NoServer
    /\ mon = NoMonitor
    /\ scr = NoScrape

\* ------------------------------------------- refreshes, one call a step

\* What Hugging Face may answer: models A and B from the API; B in a second
\* version and C from the web page, and a card that cannot be processed.
RawA1 == [modelId |-> <<"o", "/">> \o Str_a, description |-> Str_1, tags |-> <<>>]
RawB1 == [modelId |-> Str_b, description |-> Str_1, tags |-> <<Str_gguf>>]
RawB2 == [modelId |-> Str_b, description |-> Str_2, tags |-> <<Str_gguf>>]
RawC1 == [modelId |-> Str_c, description |-> Str_1, tags |-> <<>>]

RefreshRaws == {RawA1, RawB1}

RefreshApiOutcomes == {ApiFail} \cup {ApiOk(b) : b \in SeqsUpTo(RefreshRaws, MaxBatch)}

CardB2 == [ok |-> TRUE, id |-> Str_b, data |-> RawB2]
CardC1 == [ok |-> TRUE, id |-> Str_c, data |-> RawC1]
CardBad == [ok |-> FALSE, id |-> Str_c, data |-> RawC1]

RefreshCards == {CardB2, CardC1}

RefreshWebOutcomes ==
    {WebFail} \cup {WebOk(c) : c \in SeqsUpTo(RefreshCards, MaxBatch)}
              \cup {WebOk(<<CardBad>>), WebOk(<<CardBad, CardC1>>)}

IoOutcomes == {"ok", "open_error"}

\* The keys (ids for Hugging Face, names for Ollama) of a list of models.
KeyOf(src, m) == IF src = "hf" THEN m.id ELSE m.name

Keys(src, models) == {KeyOf(src, models[i]) : i \in 1..Len(models)}

\* What a refresh of src that fetched `models` found in the cache `old`: the keys
\* the fetch no longer has, and the keys it has with another record.
RefreshRecord(src, old, r, failed) ==
    [op |-> "refresh", src |-> src, ok |-> r.success, batch |-> r.models,
     failed |-> failed,
     dropped |-> IF r.success THEN Keys(src, RecordsOf(old)) \ Keys(src, r.models)
                 ELSE {},
     updated |-> IF r.success
                 THEN {k \in Keys(src, r.models) :
                         \E i \in 1..Len(RecordsOf(old)) :
                             /\ KeyOf(src, RecordsOf(old)[i]) = k
                             /\ ~InList(RecordsOf(old)[i], r.models)}
                 ELSE {}]

DoRefreshHF(api, web, io) ==
    LET r == update_huggingface_models_cache(files["hf"], api, web, io)
    IN  /\ files' = [files EXCEPT !["hf"] = r.file]
        /\ last' = RefreshRecord("hf", files["hf"], r, r.failed)
        /\ UNCHANGED <<scr, srv, mon, seen, env, pre, pc, wq, meta, now>>

\* The web page is asked only when the API gave nothing.
RefreshHF ==
    \E api \in RefreshApiOutcomes, io \in IoOutcomes :
        \E web \in IF api.kind = "ok" /\ api.models # <<>> THEN {WebFail}
                   ELSE RefreshWebOutcomes :
            DoRefreshHF(api, web, io)

ElemX == [h3 |-> TRUE, name |-> <<"x">>, tag |-> Absent, description |-> Str_1]
ElemNoName == [h3 |-> FALSE, name |-> <<>>, tag |-> Absent, description |-> <<>>]

PageOutcomes ==
    {PageUnreachable, PageTimeout, PageOk(<<>>), PageOk(<<ElemX>>), PageOk(<<ElemNoName>>)}

\* What the library's pages may answer; a page get_models never asks for is
\* not distinguished.
OllamaListings ==
    {pages \in [1..PageLimit -> PageOutcomes] :
        \A p \in 1..PageLimit : p \notin Visited(pages, 1) => pages[p] = PageTimeout}

\* Without a browser no page is asked for.
RefreshOllama ==
    \E driver \in BOOLEAN, io \in IoOutcomes :
      \E pages \in IF driver THEN OllamaListings ELSE {[p \in 1..PageLimit |-> PageTimeout]} :
        LET r == update_ollama_models_cache(files["ollama"], driver, pages, io)
        IN  /\ files' = [files EXCEPT !["ollama"] = r.file]
            /\ last' = RefreshRecord("ollama", files["ollama"], r,
                                      ~driver \/ PagesFailed(pages))
            /\ UNCHANGED <<scr, srv, mon, seen, env, pre, pc, wq, meta, now>>

NextRefresh == RefreshHF \/ RefreshOllama

SpecRefresh == InitIdle /\ [][NextRefresh]_vars

RefreshDone == last.op = "refresh"

\* C1: after a successful refresh of source S with batch N, the persisted
\* entries of S are exactly the records of N, in N's order: no entry of S
\* that N lacks remains, and every key of N holds N's record.
C1_ScopedReplace ==
    (RefreshDone /\ last.ok) =>
        /\ RecordsOf(files[last.src]) = last.batch
        /\ Keys(last.src, RecordsOf(files[last.src])) = Keys(last.src, last.batch)

\* C1 witness: the cache held A and B; a refresh fetched B changed and C; now A
\* is gone, B is updated and C is added.
C1_Witness ==
    /\ RefreshDone /\ last.ok /\ last.src = "hf"
    /\ last.dropped = {ApiModel(RawA1).id}
    /\ last.updated = {Str_b}
    /\ last.batch = <<WebModel(CardB2), WebModel(CardC1)>>
    /\ RecordsOf(files["hf"]) = <<WebModel(CardB2), WebModel(CardC1)>>

\* C2: whenever the source adapter fails during a refresh, the cache of that
\* source is left as it was and the call reports failure.
C2_AllOrNothing ==
    [][(last'.op = "refresh" /\ last'.failed) => (files' = files /\ ~last'.ok)]_vars

UniqueKeys(src, models) ==
    \A i, j \in 1..Len(models) : KeyOf(src, models[i]) = KeyOf(src, models[j]) => i = j

\* C7: the persisted catalog holds at most one record per (source, id), and after
\* a successful refresh that record is one the refresh fetched.
C7_KeyUniqueness ==
    \A src \in FileNames :
        /\ UniqueKeys(src, RecordsOf(files[src]))
        /\ (RefreshDone /\ last.ok /\ last.src = src) =>
               \A i \in 1..Len(RecordsOf(files[src])) :
                   InList(RecordsOf(files[src])[i], last.batch)

\* ------------------------------------------------ models.json (pyllm/)

\* DEFAULT_MODELS; the desc texts are left out.
DEFAULT_MODELS ==
    <<[name |-> "tinyllama:1.1b", size |-> "1.1B"],
      [name |-> "codellama:7b", size |-> "7B"],
      [name |-> "wizardcoder:7b-python", size |-> "7B"],
      [name |-> "deepseek-coder:6.7b", size |-> "6.7B"],
      [name |-> "codegemma:2b", size |-> "2B"],
      [name |-> "phi:2.7b", size |-> "2.7B"],
      [name |-> "stablelm-zephyr:3b", size |-> "3B"],
      [name |-> "mistral:7b", size |-> "7B"],
      [name |-> "qwen:7b", size |-> "7B"],
      [name |-> "gemma:7b", size |-> "7B"],
      [name |-> "gemma:2b", size |-> "2B"]>>

\* A parsed JSON list, as json.load returns it.
JsonList(models) == [kind |-> "list", items |-> [i \in 1..Len(models) |-> TokDict(models[i])]]

\* load_models_from_json: whatever the file parses to; the default models when
\* the file is missing or does not parse.
load_models_from_json(f) ==
    IF f # NoFile /\ JsonLoad(f).kind # "error" THEN JsonLoad(f)
    ELSE JsonList(DEFAULT_MODELS)

\* ------------------------------------- saving a cache file, step by step

\* What load() of the file's owner returns.
LoadFile(name, f) ==
    IF name = "models" THEN load_models_from_json(f)
    ELSE JsonList(load_huggingface_models_from_cache(f))

ModelPhi == [name |-> "phi", size |-> "2.7B"]
ModelGemma == [name |-> "gemma", size |-> "2.0B"]

SaveRecord(name, ok) == [op |-> "save", src |-> name, ok |-> ok]

\* update_huggingface_models_cache up to "if models:": the list to be saved.
BeginSaveHF ==
    /\ pc = "idle"
    /\ \E api \in RefreshApiOutcomes, web \in {WebFail, WebOk(<<CardC1>>)} :
          LET r == FetchModels(api, web)
          IN  /\ r.models # <<>>
              /\ wq' = JsonDumpList(r.models)
    /\ pc' = "open"
    /\ pre' = files["hf"]
    /\ last' = SaveRecord("hf", FALSE)
    /\ UNCHANGED <<scr, srv, mon, seen, env, files, meta, now>>

\* save_models_to_json up to open(): the document to be written.
BeginSaveModels ==
    /\ pc = "idle"
    /\ \E models \in SeqsUpTo({ModelPhi, ModelGemma}, MaxBatch) : wq' = JsonDumpList(models)
    /\ pc' = "open"
    /\ pre' = files["models"]
    /\ last' = SaveRecord("models", FALSE)
    /\ UNCHANGED <<scr, srv, mon, seen, env, files, meta, now>>

\* open(path, 'w') creates the file or truncates it to nothing.
OpenTruncated(old) == <<>>

OpenForWrite ==
    /\ pc = "open"
    /\ files' = [files EXCEPT ![last.src] = OpenTruncated(files[last.src])]
    /\ pc' = "write"
    /\ UNCHANGED <<scr, srv, mon, seen, env, pre, last, wq, meta, now>>

\* open raises (an IOError): the call fails and the file is as it was.
OpenFails ==
    /\ pc = "open"
    /\ pc' = "idle"
    /\ wq' = <<>>
    /\ UNCHANGED <<scr, srv, mon, seen, env, files, pre, last, meta, now>>

\* One more piece of the document reaches the file.
WriteChunk ==
    /\ pc = "write"
    /\ wq # <<>>
    /\ files' = [files EXCEPT ![last.src] = Append(files[last.src], Head(wq))]
    /\ wq' = Tail(wq)
    /\ UNCHANGED <<scr, srv, mon, seen, env, pre, last, pc, meta, now>>

\* The with-block ends: the file is closed and the call returns.
CloseFile ==
    /\ pc = "write"
    /\ wq = <<>>
    /\ pc' = "idle"
    /\ last' = SaveRecord(last.src, TRUE)
    /\ UNCHANGED <<scr, srv, mon, seen, env, files, pre, wq, meta, now>>

\* The process dies while the file is open.
Crash ==
    /\ pc = "write"
    /\ pc' = "crashed"
    /\ wq' = <<>>
    /\ UNCHANGED <<scr, srv, mon, seen, env, files, pre, last, meta, now>>

\* The next run of the tool.
Restart ==
    /\ pc = "crashed"
    /\ pc' = "idle"
    /\ UNCHANGED <<scr, srv, mon, seen, env, files, pre, last, wq, meta, now>>

NextSave ==
    \/ BeginSaveHF
    \/ BeginSaveModels
    \/ OpenForWrite
    \/ OpenFails
    \/ WriteChunk
    \/ CloseFile
    \/ Crash
    \/ Restart

SpecSave == InitIdle /\ [][NextSave]_vars

\* C3: when a save over a persisted catalog is cut short by a crash at any step,
\* the next load() returns the complete catalog persisted before the save
\* started; no truncated or partly written file is visible to it.
C3_AtomicSave ==
    (pc = "crashed" /\ IsListDoc(pre)) =>
        LoadFile(last.src, files[last.src]) = LoadFile(last.src, pre)

\* ------------------------------- the metadata store (getllm/models/)

ModelNames == {"llama", "phi"}

\* ModelMetadataManager.update_model_metadata(name, data): the entry kept under
\* `name` is overwritten, or inserted when there is none.
update_model_metadata(store, name, data) ==
    [n \in (DOMAIN store) \cup {name} |-> IF n = name THEN data ELSE store[n]]

\* The loop `for model in models: update_model_metadata(model['name'], {...})`.
RECURSIVE UpdateAll(_, _, _, _)
UpdateAll(store, names, source, stamp) ==
    IF names = <<>> THEN store
    ELSE UpdateAll(update_model_metadata(store, Head(names),
                                         [source |-> source, last_updated |-> stamp]),
                   Tail(names), source, stamp)

ListFail == <<"<raise>">>

\* What a manager's get_available_models may give: names, or an exception.
Listings == SeqsUpTo(ModelNames, MaxBatch) \cup {ListFail}

\* update_models_from_ollama of getllm/models: (result, store).
update_models_from_ollama(store, listing, stamp) ==
    IF listing = ListFail THEN [ok |-> FALSE, store |-> store]
    ELSE [ok |-> TRUE, store |-> UpdateAll(store, listing, "ollama", stamp)]

\* update_models_metadata: Hugging Face first, then update_models_from_ollama,
\* whose result is not looked at.
update_models_metadata(store, hf, ollama, stamp) ==
    IF hf = ListFail THEN [ok |-> FALSE, store |-> store]
    ELSE [ok |-> TRUE,
          store |-> update_models_from_ollama(
                        UpdateAll(store, hf, "huggingface", stamp), ollama, stamp).store]

\* update_models_from_huggingface: the models a search returned.
update_models_from_huggingface(store, found, stamp) ==
    IF found = ListFail THEN [ok |-> FALSE, store |-> store]
    ELSE [ok |-> TRUE, store |-> UpdateAll(store, found, "huggingface", stamp)]

MetaRecord(op, r) == [op |-> op, ok |-> r.ok]

UpdateModelsFromOllama ==
    \E listing \in Listings :
        LET r == update_models_from_ollama(meta, listing, now)
        IN  /\ meta' = r.store
            /\ last' = MetaRecord("update_models_from_ollama", r)
            /\ UNCHANGED <<scr, srv, mon, seen, env, files, pre, pc, wq, now>>

UpdateModelsMetadata ==
    \E hf \in Listings, ollama \in Listings :
        LET r == update_models_metadata(meta, hf, ollama, now)
        IN  /\ meta' = r.store
            /\ last' = MetaRecord("update_models_metadata", r)
            /\ UNCHANGED <<scr, srv, mon, seen, env, files, pre, pc, wq, now>>

UpdateModelsFromHuggingface ==
    \E found \in Listings :
        LET r == update_models_from_huggingface(meta, found, now)
        IN  /\ meta' = r.store
            /\ last' = MetaRecord("update_models_from_huggingface", r)
            /\ UNCHANGED <<scr, srv, mon, seen, env, files, pre, pc, wq, now>>

Tick ==
    /\ now < MaxClock
    /\ now' = now + 1
    /\ UNCHANGED <<scr, srv, mon, seen, env, files, pre, last, pc, wq, meta>>

NextMeta ==
    \/ UpdateModelsFromOllama
    \/ UpdateModelsMetadata
    \/ UpdateModelsFromHuggingface
    \/ Tick

SpecMeta == InitIdle /\ [][NextMeta]_vars

\* The entries of a source are the same before and after the step.
SourceUntouched(source) ==
    \A n \in DOMAIN meta :
        meta[n].source = source => (n \in DOMAIN meta' /\ meta'[n] = meta[n])

\* C4: a refresh of Ollama never adds, removes or changes a persisted entry whose
\* source is Hugging Face, and a refresh of Hugging Face never touches an Ollama
\* entry, also when both sources have a model of the same name.
C4_SourceIsolation ==
    [][/\ last'.op = "update_models_from_ollama" => SourceUntouched("huggingface")
       /\ last'.op = "update_models_from_huggingface" => SourceUntouched("ollama")]_vars

\* ------------------------------------------- loading a damaged cache file

\* load_huggingface_models_from_cache and load_ollama_models_from_cache of
\* getllm/models: [] for a missing file or a parse error, else what the file
\* parses to, whatever its shape.
load_cache_getllm(f) ==
    IF f = NoFile \/ JsonLoad(f).kind = "error" THEN JsonList(<<>>)
    ELSE JsonLoad(f)

RecPhi == [id |-> <<"o", "/", "p">>, name |-> <<"p">>, description |-> <<>>, tags |-> <<>>]
RecNoId == [id |-> Absent, name |-> <<"p">>, description |-> <<>>, tags |-> <<>>]

\* What a cache file may hold after a crash, a full disk or a foreign writer.
DamagedContents ==
    {NoFile,
     <<>>,
     <<TokOpenList>>,
     <<TokOpenList, TokDict(RecPhi)>>,
     <<TokCloseList>>,
     <<TokScalar>>,
     <<TokOpenObj, TokDict(RecPhi), TokCloseObj>>,
     <<TokOpenList, TokScalar, TokCloseList>>,
     <<TokOpenList, TokDict(RecNoId), TokDict(RecPhi), TokCloseList>>,
     JsonDumpList(<<RecPhi>>)}

\* Missing, truncated, not JSON, or JSON of another shape than a list.
Damaged(f) == f = NoFile \/ JsonLoad(f).kind # "list"

LoadRecord(loader, name, result) ==
    [op |-> "load", loader |-> loader, src |-> name, result |-> result]

DamageFile ==
    \E name \in FileNames, c \in DamagedContents :
        /\ files' = [files EXCEPT ![name] = c]
        /\ UNCHANGED <<scr, srv, mon, seen, env, pre, last, pc, wq, meta, now>>

LoadHuggingfaceCache ==
    /\ pre' = files["hf"]
    /\ last' = LoadRecord("models.huggingface", "hf",
                          JsonList(load_huggingface_models_from_cache(files["hf"])))
    /\ UNCHANGED <<scr, srv, mon, seen, env, files, pc, wq, meta, now>>

LoadHuggingfaceCacheGetllm ==
    /\ pre' = files["hf"]
    /\ last' = LoadRecord("getllm.models", "hf", load_cache_getllm(files["hf"]))
    /\ UNCHANGED <<scr, srv, mon, seen, env, files, pc, wq, meta, now>>

LoadOllamaCacheGetllm ==
    /\ pre' = files["ollama"]
    /\ last' = LoadRecord("getllm.models", "ollama", load_cache_getllm(files["ollama"]))
    /\ UNCHANGED <<scr, srv, mon, seen, env, files, pc, wq, meta, now>>

LoadModelsJson ==
    /\ pre' = files["models"]
    /\ last' = LoadRecord("pyllm.models", "models", load_models_from_json(files["models"]))
    /\ UNCHANGED <<scr, srv, mon, seen, env, files, pc, wq, meta, now>>

NextLoad ==
    \/ DamageFile
    \/ LoadHuggingfaceCache
    \/ LoadHuggingfaceCacheGetllm
    \/ LoadOllamaCacheGetllm
    \/ LoadModelsJson

SpecLoad == InitIdle /\ [][NextLoad]_vars

\* C5: every cache loader returns an empty catalog for a cache file that is
\* missing, truncated, not JSON or not a list.
C5_CorruptCacheRecovery ==
    (last.op = "load" /\ Damaged(pre)) => last.result = JsonList(<<>>)

\* ------------------------------------ OllamaModelsScraper (getllm/)

CardLimit == 5
max_pages == 50

categories ==
    <<"", "vision", "code", "embedding", "tools", "multimodal",
      "chat", "reasoning", "math", "roleplay">>

\* The None extract_model_info returns for a card it cannot read.
NoInfo == [none |-> TRUE]

\* A reading of a card that lets the time of the scrape leak into a field that
\* is not a timestamp.
extract_model_info_aged(card_element, stamp) ==
    IF card_element.broken THEN NoInfo
    ELSE [name |-> card_element.name,
          url |-> card_element.url,
          pulls |-> stamp,
          description |-> card_element.description,
          tags |-> card_element.tags,
          source |-> "ollama",
          scraped_at |-> stamp]

\* extract_model_info: the dict of one model card, stamped with the time of the
\* scrape; NoInfo when reading the card raises. size, updated and ollama_command
\* are carried through unread and are left out.
extract_model_info(card_element, stamp) ==
    IF card_element.broken THEN NoInfo
    ELSE [name |-> card_element.name,
          url |-> card_element.url,
          pulls |-> card_element.pulls,
          description |-> card_element.description,
          tags |-> card_element.tags,
          source |-> "ollama",
          scraped_at |-> stamp]

\* model_cards[:5]
FirstCards(cards) == SubSeq(cards, 1, IF Len(cards) < CardLimit THEN Len(cards) ELSE CardLimit)

\* scrape_library_page, given what the site answers for the page: the dicts of
\* the first five cards that can be read; [] when loading the page fails.
scrape_library_page(response, stamp) ==
    IF response.kind # "ok" THEN <<>>
    ELSE LET infos == [i \in 1..Len(FirstCards(response.elems)) |->
                          extract_model_info(response.elems[i], stamp)]
         IN  SelectSeq(infos, LAMBDA m : m # NoInfo)

\* What the site answers for library page `page` of the paged listing.
PageAt(site, page) == IF page <= Len(site.pages) THEN site.pages[page] ELSE PageOk(<<>>)

\* The page loop of scrape_all_models.
RECURSIVE scrape_pages(_, _, _)
scrape_pages(site, page, stamp) ==
    IF page > max_pages THEN <<>>
    ELSE LET models == scrape_library_page(PageAt(site, page), stamp)
         IN  IF models = <<>> THEN <<>>
             ELSE models \o scrape_pages(site, page + 1, stamp)

\* f"{model['name']}_{model['url']}"
model_key(model) == model.name \o <<"_">> \o model.url

\* The loop "if model_key not in seen_models: seen_models.add; append".
RECURSIVE AddUnseen(_, _)
AddUnseen(acc, models) ==
    IF models = <<>> THEN acc
    ELSE LET m == Head(models)
         IN  AddUnseen(IF model_key(m) \in acc.seen THEN acc
                       ELSE [seen |-> acc.seen \cup {model_key(m)}, out |-> Append(acc.out, m)],
                       Tail(models))

\* search_models: query and category are not used; the library page is scraped.
search_models(site, category, stamp) == scrape_library_page(site.front, stamp)

\* What the category loop reads, in the order read.
RECURSIVE category_batches(_, _, _)
category_batches(site, cats, stamp) ==
    IF cats = <<>> THEN <<>>
    ELSE search_models(site, Head(cats), stamp) \o category_batches(site, Tail(cats), stamp)

scrape_all_categories(site, stamp) ==
    AddUnseen([seen |-> {}, out |-> <<>>], category_batches(site, categories, stamp)).out

\* Every dict the scrape reads, in input order.
RawBatch(site, stamp) ==
    scrape_pages(site, 1, stamp) \o category_batches(site, categories, stamp)

\* scrape_all_models with detailed=False.
scrape_all_models(site, stamp) ==
    LET all_models == scrape_pages(site, 1, stamp)
        category_models == scrape_all_categories(site, stamp)
    IN  AddUnseen([seen |-> {}, out |-> <<>>], all_models \o category_models).out

\* save_to_json: the file after the call; any exception is swallowed.
save_to_json(old, models, stamp, io) ==
    IF io # "ok" THEN old
    ELSE <<TokOpenObj,
           TokDict([source |-> "ollama.com", scraped_at |-> stamp, total_models |-> Len(models)])>>
         \o [i \in 1..Len(models) |-> TokDict(models[i])]
         \o <<TokCloseObj>>

\* ----------------------------- repeated refreshes while the clock runs

LibX1 == [broken |-> FALSE, name |-> <<"x">>, url |-> <<"u">>, pulls |-> 1,
          description |-> <<>>, tags |-> <<>>]
LibX2 == [broken |-> FALSE, name |-> <<"x">>, url |-> <<"u">>, pulls |-> 2,
          description |-> <<>>, tags |-> <<>>]
LibY == [broken |-> FALSE, name |-> <<"y">>, url |-> <<"v">>, pulls |-> 1,
         description |-> <<>>, tags |-> <<>>]
LibBroken == [broken |-> TRUE, name |-> <<>>, url |-> <<>>, pulls |-> 0,
              description |-> <<>>, tags |-> <<>>]

\* What ollama.com may answer during one scrape: the pages of the paged
\* listing, and the library page as it is when the categories are scraped
\* (the same URL as page 1, asked for later). An empty library; a library that
\* cannot be loaded; one page; two pages that overlap; a pull count that moves
\* while the scrape runs; a model listed twice; a card that cannot be read; a
\* second page that cannot be loaded.
ScrapeSites ==
    {[pages |-> <<>>, front |-> PageOk(<<>>)],
     [pages |-> <<PageTimeout>>, front |-> PageTimeout],
     [pages |-> <<PageOk(<<LibX1>>)>>, front |-> PageOk(<<LibX1>>)],
     [pages |-> <<PageOk(<<LibX1, LibY>>), PageOk(<<LibY>>)>>, front |-> PageOk(<<LibX1, LibY>>)],
     [pages |-> <<PageOk(<<LibX1>>)>>, front |-> PageOk(<<LibX2>>)],
     [pages |-> <<PageOk(<<LibX1, LibX2>>)>>, front |-> PageOk(<<LibX1, LibX2>>)],
     [pages |-> <<PageOk(<<LibBroken, LibY>>)>>, front |-> PageOk(<<LibBroken, LibY>>)],
     [pages |-> <<PageOk(<<LibX1>>), PageTimeout>>, front |-> PageOk(<<LibX1>>)]}

\* What Hugging Face may answer to one refresh.
ScrapeHubs ==
    {[api |-> ApiFail, web |-> WebFail],
     [api |-> ApiFail, web |-> WebOk(<<CardC1>>)],
     [api |-> ApiOk(<<RawA1>>), web |-> WebFail],
     [api |-> ApiOk(<<RawA1, RawB1>>), web |-> WebFail]}

\* The record of a refresh: `again` says that the refresh before it was of the
\* same source and got the same answers, `elapsed` the seconds between the two.
AgainRecord(src, upstream, io) ==
    LET again == /\ last.op = "refresh"
                 /\ last.src = src
                 /\ last.upstream = upstream
                 /\ last.io = io
    IN  [op |-> "refresh", src |-> src, upstream |-> upstream, io |-> io, at |-> now,
         again |-> again, elapsed |-> IF again THEN now - last.at ELSE 0]

\* main() of OllamaModelsScraper without --search: scrape_all_models, save_to_json.
ScrapeOllama ==
    \E site \in ScrapeSites, io \in IoOutcomes :
        /\ files' = [files EXCEPT !["ollama"] =
                        save_to_json(files["ollama"], scrape_all_models(site, now), now, io)]
        /\ last' = AgainRecord("ollama", site, io)
        /\ UNCHANGED <<scr, srv, mon, seen, env, pre, pc, wq, meta, now>>

UpdateHuggingfaceCache ==
    \E hub \in ScrapeHubs, io \in IoOutcomes :
        /\ files' = [files EXCEPT !["hf"] =
                        update_huggingface_models_cache(files["hf"], hub.api, hub.web, io).file]
        /\ last' = AgainRecord("hf", hub, io)
        /\ UNCHANGED <<scr, srv, mon, seen, env, pre, pc, wq, meta, now>>

NextScrape ==
    \/ ScrapeOllama
    \/ UpdateHuggingfaceCache
    \/ Tick

SpecScrape == InitIdle /\ [][NextScrape]_vars

\* The model dicts of a file save_to_json wrote (the first dict is the header).
ScrapedCatalog(f) ==
    LET v == JsonLoad(f)
    IN  IF v.kind = "object" /\ Len(v.items) >= 1
        THEN [i \in 1..(Len(v.items) - 1) |-> v.items[i + 1].r]
        ELSE <<>>

\* The record of `raw` that came last among those with the key of raw[i].
LastSeen(raw, i) ==
    LET same == {j \in 1..Len(raw) : model_key(raw[j]) = model_key(raw[i])}
    IN  raw[CHOOSE j \in same : \A k \in same : k <= j]

\* C6: when one scrape reads two or more cards with the same key, the saved
\* catalog holds exactly one record for the key, and it is the one read last.
C6_LastSeenWins ==
    (last.op = "refresh" /\ last.src = "ollama" /\ last.io = "ok") =>
        LET raw == RawBatch(last.upstream, last.at)
            catalog == ScrapedCatalog(files["ollama"])
        IN  \A i \in 1..Len(raw) :
                /\ Cardinality({j \in 1..Len(catalog) :
                                    model_key(catalog[j]) = model_key(raw[i])}) = 1
                /\ InList(LastSeen(raw, i), catalog)

\* A file with every scraped_at set to zero.
Unstamped(f) ==
    [i \in 1..Len(f) |->
        IF f[i].k = "dict" /\ "scraped_at" \in DOMAIN f[i].r
        THEN TokDict([f[i].r EXCEPT !.scraped_at = 0])
        ELSE f[i]]

\* C8 as stated: the second of two refreshes of a source that get the same
\* answers leaves the cache file as the first left it, however much time passed
\* between them.
C8_Idempotent ==
    [][(last'.op = "refresh" /\ last'.again) => files'[last'.src] = files[last'.src]]_vars

\* C8, amended: the second of two refreshes of a source that get the same answers
\* leaves the cache file as the first left it, but for the scraped_at timestamps
\* OllamaModelsScraper writes; the Hugging Face cache file is left identical.
C8_IdempotentButForTimestamps ==
    [][(last'.op = "refresh" /\ last'.again) =>
          /\ Unstamped(files'[last'.src]) = Unstamped(files[last'.src])
          /\ last'.src = "hf" => files'["hf"] = files["hf"]
          /\ last'.elapsed = 0 => files' = files]_vars

C8_Witness ==
    /\ last.op = "refresh"
    /\ last.again
    /\ last.elapsed > 0
    /\ last.src = "ollama"
    /\ last.io = "ok"
    /\ Len(ScrapedCatalog(files["ollama"])) = 2
    /\ \A i \in 1..2 : ScrapedCatalog(files["ollama"])[i].scraped_at = now
    /\ JsonLoad(files["hf"]).kind = "list"

\* ------------------------------------------------------------- search

DefaultLimit == 20

UpperLetters ==
    <<"A", "B", "C", "D", "E", "F", "G", "H", "I", "J", "K", "L", "M",
      "N", "O", "P", "Q", "R", "S", "T", "U", "V", "W", "X", "Y", "Z">>
LowerLetters ==
    <<"a", "b", "c", "d", "e", "f", "g", "h", "i", "j", "k", "l", "m",
      "n", "o", "p", "q", "r", "s", "t", "u", "v", "w", "x", "y", "z">>

LowerChar(c) ==
    IF \E i \in 1..26 : UpperLetters[i] = c
    THEN LowerLetters[CHOOSE i \in 1..26 : UpperLetters[i] = c]
    ELSE c

\* str.lower()
Lower(s) == [i \in 1..Len(s) |-> LowerChar(s[i])]

\* q in s, for two strings
Contains(q, s) == \E i \in 0..(Len(s) - Len(q)) : SubSeq(s, i + 1, i + Len(q)) = q

\* models[:limit], for an int limit: a negative limit counts from the end.
Slice(models, limit) ==
    LET n == IF limit >= 0 THEN limit ELSE Len(models) + limit
    IN  SubSeq(models, 1, IF n > Len(models) THEN Len(models) ELSE n)

\* DEFAULT_HF_MODELS of models/constants.py: a list of model dicts.
DEFAULT_HF_MODELS ==
    <<[id |-> <<"t", "/", "d">>, name |-> <<"d">>, description |-> <<>>, tags |-> <<>>]>>

\* The filter's condition for one model, evaluated left to right as Python's
\* `or` does: it raises when it comes to lower-case a description that is None.
FilterRaises(model, query) ==
    /\ ~Contains(query, Lower(model.id))
    /\ ~Contains(query, Lower(model.name))
    /\ model.description = None

FilterKeeps(model, query) ==
    \/ Contains(query, Lower(model.id))
    \/ Contains(query, Lower(model.name))
    \/ (model.description # None /\ Contains(query, Lower(model.description)))
    \/ \E i \in 1..Len(model.tags) : Contains(query, Lower(model.tags[i]))

\* The except branch: the default models, filtered on name and description.
SearchFallback(query) ==
    SelectSeq(DEFAULT_HF_MODELS,
              LAMBDA m : \/ Falsy(query)
                         \/ Contains(Lower(query), Lower(m.name))
                         \/ Contains(Lower(query), Lower(m.description)))

\* search_huggingface_models: the cache file after the call, the list returned,
\* and the branch that returned it.
search_huggingface_models(file, hub, io, query, limit) ==
    LET u == update_huggingface_models_cache(file, hub.api, hub.web, io)
        loaded == load_huggingface_models_from_cache(u.file)
        models == IF ~u.success /\ loaded = <<>> THEN DEFAULT_HF_MODELS ELSE loaded
    IN  IF Falsy(query)
        THEN [file |-> u.file, path |-> "main", result |-> Slice(models, limit)]
        ELSE IF \E i \in 1..Len(models) : FilterRaises(models[i], Lower(query))
        THEN [file |-> u.file, path |-> "except", result |-> SearchFallback(Lower(query))]
        ELSE [file |-> u.file, path |-> "main",
              result |-> Slice(SelectSeq(models, LAMBDA m : FilterKeeps(m, Lower(query))),
                               limit)]

\* search_local_models of OllamaModelsScraper, over self.models.
search_local_models(models, query) ==
    IF models = <<>> THEN <<>>
    ELSE SelectSeq(models,
                   LAMBDA m : \/ Contains(Lower(query), Lower(m.name))
                              \/ Contains(Lower(query), Lower(m.description))
                              \/ \E i \in 1..Len(m.tags) :
                                    Contains(Lower(query), Lower(m.tags[i])))

\* self.models is set to [] by __init__ and assigned nowhere else.
self_models == <<>>

RawBig == [modelId |-> <<"O", "/", "B">>, description |-> Str_1, tags |-> <<>>]
RawNull == [modelId |-> <<"n">>, description |-> None, tags |-> <<>>]

\* What Hugging Face may answer while a search refreshes the cache.
SearchHubs ==
    {[api |-> ApiFail, web |-> WebFail],
     [api |-> ApiFail, web |-> WebOk(<<CardC1>>)],
     [api |-> ApiOk(<<RawB1>>), web |-> WebFail],
     [api |-> ApiOk(<<RawA1, RawB1>>), web |-> WebFail],
     [api |-> ApiOk(<<RawBig, RawA1>>), web |-> WebFail],
     [api |-> ApiOk(<<RawNull>>), web |-> WebFail],
     [api |-> ApiOk(<<RawNull, RawB1>>), web |-> WebFail]}

Queries == {None, <<"b">>, <<"B">>, <<"o", "/">>, Str_gguf, Str_1, <<"n">>, <<"z">>}

SearchRecord(path, query, limit, result) ==
    [op |-> "search", path |-> path, query |-> query, limit |-> limit, result |-> result]

SearchHuggingface ==
    \E hub \in SearchHubs, io \in IoOutcomes, query \in Queries, limit \in {1, DefaultLimit} :
        LET r == search_huggingface_models(files["hf"], hub, io, query, limit)
        IN  /\ files' = [files EXCEPT !["hf"] = r.file]
            /\ last' = SearchRecord(r.path, query, limit, r.result)
            /\ UNCHANGED <<scr, srv, mon, seen, env, pre, pc, wq, meta, now>>

SearchLocal ==
    \E query \in Queries \ {None} :
        /\ last' = SearchRecord("local", query, DefaultLimit,
                                search_local_models(self_models, query))
        /\ UNCHANGED <<scr, srv, mon, seen, env, files, pre, pc, wq, meta, now>>

NextSearch ==
    \/ SearchHuggingface
    \/ SearchLocal

SpecSearch == InitIdle /\ [][NextSearch]_vars

\* The record has the query in its id, name, description or a tag, whatever the case.
MatchesQuery(m, q) ==
    \/ Contains(Lower(q), Lower(m.id))
    \/ Contains(Lower(q), Lower(m.name))
    \/ (m.description # None /\ Contains(Lower(q), Lower(m.description)))
    \/ \E i \in 1..Len(m.tags) : Contains(Lower(q), Lower(m.tags[i]))

\* C9: a search of the Hugging Face cache for q returns every cached record that
\* has q in its id, name, description or a tag, and no record that has q in none
\* of them, on the main path and on the error fallback (the limit being no less
\* than the size of the cache).
C9_FilterCorrectness ==
    (last.op = "search" /\ last.path \in {"main", "except"} /\ ~Falsy(last.query)) =>
        LET cached == load_huggingface_models_from_cache(files["hf"])
        IN  /\ last.limit >= Len(cached) =>
                 \A i \in 1..Len(cached) :
                     MatchesQuery(cached[i], last.query) => InList(cached[i], last.result)
            /\ \A i \in 1..Len(last.result) : MatchesQuery(last.result[i], last.query)

\* --------------------------------------------------------------- list

Src_all == <<"a", "l", "l">>
Src_ollama == <<"o", "l", "l", "a", "m", "a">>
Src_Ollama == <<"O", "l", "l", "a", "m", "a">>
Src_huggingface == <<"h", "u", "g", "g", "i", "n", "g", "f", "a", "c", "e">>
Src_unknown == <<"u", "n", "k", "n", "o", "w", "n">>

\* The --limit option: not given (None), or an int.
NoLimit == [given |-> FALSE, n |-> 0]
LimitOf(n) == [given |-> TRUE, n |-> n]

\* "if limit is not None: models = models[:limit]"
ApplyLimit(models, limit) == IF limit.given THEN Slice(models, limit.n) ELSE models

\* A list command that cuts the listing to the limit first and filters what is
\* left.
execute_limit_first(models, installed_ids, source, installed, limit) ==
    LET cut == ApplyLimit(models, limit)
        by_source == IF source # Src_all
                     THEN SelectSeq(cut, LAMBDA m : Lower(m.source) = Lower(source))
                     ELSE cut
    IN  IF installed THEN SelectSeq(by_source, LAMBDA m : m.id \in installed_ids)
        ELSE by_source

\* ListModelsCommand.execute: the models shown, given manager.list_models() and
\* the ids manager.is_model_installed holds for.
execute(models, installed_ids, source, installed, limit) ==
    LET by_source == IF source # Src_all
                     THEN SelectSeq(models, LAMBDA m : Lower(m.source) = Lower(source))
                     ELSE models
        by_installed == IF installed
                        THEN SelectSeq(by_source, LAMBDA m : m.id \in installed_ids)
                        ELSE by_source
    IN  ApplyLimit(by_installed, limit)

\* The model_dict display_models builds for one model.
model_dict(model, installed_ids) ==
    [id |-> model.id, name |-> model.name, source |-> GetOr(model.source, Src_unknown),
     installed |-> model.id \in installed_ids]

\* The filter loop of display_models.
RECURSIVE filter_models(_, _, _, _)
filter_models(models, installed_ids, installed_only, source) ==
    IF models = <<>> THEN <<>>
    ELSE LET d == model_dict(Head(models), installed_ids)
             rest == filter_models(Tail(models), installed_ids, installed_only, source)
         IN  IF installed_only /\ ~d.installed THEN rest
             ELSE IF ~Falsy(source) /\ Lower(d.source) # Lower(source) THEN rest
             ELSE <<d>> \o rest

\* display_models: the rows of the table; none when there is nothing to show.
display_models(models, installed_ids, installed_only, source, limit) ==
    IF models = <<>> THEN <<>>
    ELSE ApplyLimit(filter_models(models, installed_ids, installed_only, source), limit)

InfoA == [id |-> Str_a, name |-> Str_a, source |-> Src_huggingface]
InfoB == [id |-> Str_b, name |-> Str_b, source |-> Src_ollama]
InfoC == [id |-> Str_c, name |-> Str_c, source |-> Src_Ollama]
InfoD == [id |-> <<"d">>, name |-> <<"d">>, source |-> Absent]

\* What the manager may list, and which of it may be installed.
Listings4 ==
    {<<>>, <<InfoA>>, <<InfoA, InfoB, InfoC>>, <<InfoB, InfoA, InfoC, InfoB>>, <<InfoC, InfoA>>}
InstalledSets == {{}, {Str_b}, {Str_a, Str_c}}

Limits == {NoLimit} \cup {LimitOf(n) : n \in (0 - 1)..MaxLimit}

ListRecord(via, models, installed_ids, source, installed, limit, result) ==
    [op |-> "list", via |-> via, models |-> models, installed_ids |-> installed_ids,
     source |-> source, installed |-> installed, limit |-> limit, result |-> result]

ListModels ==
    \E models \in Listings4, installed_ids \in InstalledSets, installed \in BOOLEAN,
       source \in {Src_all, Src_ollama, Src_huggingface}, limit \in Limits :
        /\ last' = ListRecord("execute", models, installed_ids, source, installed, limit,
                              execute(models, installed_ids, source, installed, limit))
        /\ UNCHANGED <<scr, srv, mon, seen, env, files, pre, pc, wq, meta, now>>

DisplayModels ==
    \E models \in Listings4 \cup {<<InfoD, InfoB>>}, installed_ids \in InstalledSets,
       installed_only \in BOOLEAN, source \in {None, Src_ollama, Src_huggingface},
       limit \in Limits :
        /\ last' = ListRecord("display_models", models, installed_ids, source, installed_only,
                              limit,
                              display_models(models, installed_ids, installed_only, source, limit))
        /\ UNCHANGED <<scr, srv, mon, seen, env, files, pre, pc, wq, meta, now>>

NextList ==
    \/ ListModels
    \/ DisplayModels

SpecList == InitIdle /\ [][NextList]_vars

\* The record passes every filter that was given.
Satisfies(m, installed_ids, source, installed) ==
    /\ source \notin {None, Src_all} => Lower(GetOr(m.source, Src_unknown)) = Lower(source)
    /\ installed => m.id \in installed_ids

\* The ids of a list of models or rows, in order.
Ids(rows) == [i \in 1..Len(rows) |-> rows[i].id]

\* The first n of a list, all of it when it is shorter.
FirstN(rows, n) == SubSeq(rows, 1, IF n < Len(rows) THEN n ELSE Len(rows))

CodePointOrder ==
    <<"/", "0", "1", "2", "3", "4", "5", "6", "7", "8", "9", ":">> \o UpperLetters
        \o <<"_">> \o LowerLetters

CharRank(c) == CHOOSE i \in 1..Len(CodePointOrder) : CodePointOrder[i] = c

\* s <= t as Python compares two strings.
RECURSIVE StrLeq(_, _)
StrLeq(s, t) ==
    IF s = <<>> THEN TRUE
    ELSE IF t = <<>> THEN FALSE
    ELSE IF Head(s) = Head(t) THEN StrLeq(Tail(s), Tail(t))
    ELSE CharRank(Head(s)) < CharRank(Head(t))

\* Row a comes no later than row b: by name, ties broken by id.
RowLeq(a, b) == IF a.name = b.name THEN StrLeq(a.id, b.id) ELSE StrLeq(a.name, b.name)

\* C11: what list shows is sorted by display name ascending, ties broken by id.
C11_ListOrdering ==
    last.op = "list" =>
        \A i \in 1..Len(last.result) : \A j \in i..Len(last.result) :
            RowLeq(last.result[i], last.result[j])

\* C12: a search only reads the persisted cache: it leaves every cache file as
\* it was.
C12_ReadsDoNotRefresh ==
    [][last'.op = "search" => files' = files]_vars

\* ------------------------------- a reader beside a refresh in progress

\* Another process calls load_huggingface_models_from_cache: it reads the file
\* as it is on disk at that moment. `old` and `new` are what a load of the file
\* before the save and of the document being saved would return.
ReaderLoad ==
    /\ seen' = [op |-> "load",
                during |-> IF last.op = "save" /\ last.src = "hf" THEN pc ELSE "idle",
                result |-> load_huggingface_models_from_cache(files["hf"]),
                old |-> load_huggingface_models_from_cache(pre),
                new |-> load_huggingface_models_from_cache(files["hf"] \o wq)]
    /\ UNCHANGED <<scr, srv, mon, files, pre, last, pc, wq, meta, now, env>>

NextConcurrent ==
    \/ BeginSaveHF
    \/ OpenForWrite
    \/ OpenFails
    \/ WriteChunk
    \/ CloseFile
    \/ ReaderLoad

SpecConcurrent == InitIdle /\ [][NextConcurrent]_vars

\* C13: a load that runs while another process rewrites the cache file returns
\* the complete previous catalog or the complete new one.
C13_ConcurrentReaderSafety ==
    (seen.op = "load" /\ seen.during = "write") => seen.result \in {seen.old, seen.new}

\* ------------------------------------ an I/O error while the cache is written

\* json.dump (or the close at the end of the with block) raises an IOError: the
\* file stays as far as it was written, and the except branch returns False.
WriteFails ==
    /\ pc = "write"
    /\ pc' = "idle"
    /\ wq' = <<>>
    /\ last' = SaveRecord(last.src, FALSE)
    /\ UNCHANGED <<scr, srv, mon, files, pre, meta, now, seen, env>>

NextWriteError ==
    \/ BeginSaveHF
    \/ OpenForWrite
    \/ OpenFails
    \/ WriteChunk
    \/ CloseFile
    \/ WriteFails

SpecWriteError == InitIdle /\ [][NextWriteError]_vars

\* C14: after a refresh over a persisted catalog that failed to write the
\* cache, load() returns the catalog that was persisted before the call.
C14_WriteFailureKeepsCache ==
    (pc = "idle" /\ last.op = "save" /\ ~last.ok /\ IsListDoc(pre)) =>
        LoadFile(last.src, files[last.src]) = LoadFile(last.src, pre)

\* ------------------------------------- raw records without an identifier

RawNoId == [modelId |-> Absent, description |-> Str_1, tags |-> <<>>]
RawEmptyId == [modelId |-> <<>>, description |-> Str_2, tags |-> <<>>]
RawNullId == [modelId |-> None, description |-> Str_1, tags |-> <<>>]

\* What Hugging Face may answer: entries with and without a modelId.
NormalizeHubs ==
    {[api |-> ApiFail, web |-> WebFail],
     [api |-> ApiFail, web |-> WebOk(<<CardBad, CardC1>>)],
     [api |-> ApiOk(<<RawA1, RawB1>>), web |-> WebFail],
     [api |-> ApiOk(<<RawB1>>), web |-> WebFail],
     [api |-> ApiOk(<<RawB2, RawC1>>), web |-> WebFail],
     [api |-> ApiOk(<<RawNoId>>), web |-> WebFail],
     [api |-> ApiOk(<<RawNoId, RawB1>>), web |-> WebFail],
     [api |-> ApiOk(<<RawA1, RawEmptyId>>), web |-> WebFail],
     [api |-> ApiOk(<<RawNullId, RawB1>>), web |-> WebFail],
     [api |-> ApiOk(<<RawA1, RawNullId>>), web |-> WebOk(<<CardC1>>)]}

\* One call of update_huggingface_models_cache and the load that follows it.
UpdateThenLoad ==
    \E hub \in NormalizeHubs, io \in IoOutcomes :
        LET r == update_huggingface_models_cache(files["hf"], hub.api, hub.web, io)
        IN  /\ files' = [files EXCEPT !["hf"] = r.file]
            /\ pre' = files["hf"]
            /\ last' = [op |-> "update", upstream |-> hub, io |-> io, ok |-> r.success,
                        fetched |-> r.models,
                        loaded |-> load_huggingface_models_from_cache(r.file)]
            /\ UNCHANGED <<scr, srv, mon, pc, wq, meta, now, seen, env>>

NextNormalize == UpdateThenLoad

SpecNormalize == InitIdle /\ [][NextNormalize]_vars

\* C15: an API entry without a modelId (missing, empty or null) never becomes a
\* record of the persisted cache, and every entry of the same answer that has a
\* modelId is stored.
C15_RejectAndContinue ==
    (last.op = "update" /\ last.upstream.api.kind = "ok" /\ last.io = "ok") =>
        /\ \A i \in 1..Len(RecordsOf(files["hf"])) : ~Falsy(RecordsOf(files["hf"])[i].id)
        /\ \A i \in 1..Len(last.upstream.api.models) :
               LET raw == last.upstream.api.models[i]
               IN  ~Falsy(raw.modelId) => InList(ApiModel(raw), RecordsOf(files["hf"]))

\* s.startswith(p)
HasPrefix(p, s) == Len(s) >= Len(p) /\ SubSeq(s, 1, Len(p)) = p

\* The name of the source a cache file belongs to, followed by '/'.
SourcePrefix(src) == (IF src = "hf" THEN Src_huggingface ELSE Src_ollama) \o <<"/">>

\* C16: every record of a persisted cache has an id, and the id is the name of
\* its source, a '/', and the source's name for the model.
C16_IdNamespacedBySource ==
    \A src \in {"hf", "ollama"} :
        \A i \in 1..Len(RecordsOf(files[src])) :
            LET r == RecordsOf(files[src])[i]
            IN  /\ "id" \in DOMAIN r
                /\ HasPrefix(SourcePrefix(src), r.id)
                /\ Len(r.id) > Len(SourcePrefix(src))

\* C19: when update_huggingface_models_cache reports success, the load that
\* follows returns the records the update fetched and wrote, in order.
C19_UpdateLoadRoundTrip ==
    (last.op = "update" /\ last.ok) => last.loaded = last.fetched

\* ------------------------------------------------------ size extraction

Digits == {"0", "1", "2", "3", "4", "5", "6", "7", "8", "9"}

\* The character at position i; "" past the end.
CharAt(s, i) == IF i >= 1 /\ i <= Len(s) THEN s[i] ELSE ""

\* The length of the run of digits that starts at position i.
RECURSIVE DigitRun(_, _)
DigitRun(s, i) == IF CharAt(s, i) \in Digits THEN 1 + DigitRun(s, i + 1) ELSE 0

NoMatch == <<"<no match>">>

\* (\d+\.?\d*)(u) matched at position i: group 1, or NoMatch.
NumberAt(s, i, u) ==
    LET r1 == DigitRun(s, i)
        r2 == DigitRun(s, i + r1 + 1)
    IN  IF r1 = 0 THEN NoMatch
        ELSE IF CharAt(s, i + r1) = u THEN SubSeq(s, i, i + r1 - 1)
        ELSE IF CharAt(s, i + r1) = "." /\ CharAt(s, i + r1 + 1 + r2) = u
        THEN SubSeq(s, i, i + r1 + r2)
        ELSE NoMatch

\* re.search(r'(\d+\.?\d*)(u|U)', s) for a lower-case s: group 1 of the leftmost
\* match, or NoMatch.
re_search(s, u) ==
    LET hits == {i \in 1..Len(s) : NumberAt(s, i, u) # NoMatch}
    IN  IF hits = {} THEN NoMatch
        ELSE NumberAt(s, CHOOSE i \in hits : \A j \in hits : i <= j, u)

size_patterns ==
    <<<<"7", "b">>, <<"1", "3", "b">>, <<"2", "0", "b">>, <<"6", "5", "b">>, <<"7", "0", "b">>, <<"1", ".", "1", "b">>, <<"3", "b">>, <<"6", "b">>, <<"1", "2", "b">>>>

Str_Unknown == <<"U", "n", "k", "n", "o", "w", "n">>

UpperChar(c) ==
    IF \E i \in 1..26 : LowerLetters[i] = c
    THEN UpperLetters[CHOOSE i \in 1..26 : LowerLetters[i] = c]
    ELSE c

\* str.upper()
Upper(s) == [i \in 1..Len(s) |-> UpperChar(s[i])]

\* The loop over size_patterns on tags and name: the first pattern found.
RECURSIVE FirstPatternIn(_, _, _)
FirstPatternIn(patterns, tags, name) ==
    IF patterns = <<>> THEN NoMatch
    ELSE IF \/ \E i \in 1..Len(tags) : Contains(Head(patterns), tags[i])
            \/ Contains(Head(patterns), name)
    THEN Upper(Head(patterns))
    ELSE FirstPatternIn(Tail(patterns), tags, name)

\* extract_model_size, for a dict.
extract_model_size(model_info) ==
    LET name == Lower(GetOr(model_info.name, <<>>))
        tags == [i \in 1..Len(model_info.tags) |-> Lower(model_info.tags[i])]
        model_id == Lower(GetOr(model_info.id, <<>>))
    IN  IF re_search(name, "b") # NoMatch THEN re_search(name, "b") \o <<"B">>
        ELSE IF re_search(name, "m") # NoMatch THEN re_search(name, "m") \o <<"M">>
        ELSE IF FirstPatternIn(size_patterns, tags, name) # NoMatch
        THEN FirstPatternIn(size_patterns, tags, name)
        ELSE IF FirstPatternIn(size_patterns, <<>>, model_id) # NoMatch
        THEN FirstPatternIn(size_patterns, <<>>, model_id)
        ELSE Str_Unknown

SizeNames == {<<"C", "o", "d", "e", "L", "l", "a", "m", "a", "-", "7", "b", "-", "I", "n", "s", "t", "r", "u", "c", "t">>, <<"p", "h", "i", "-", "2">>, <<"t", "i", "n", "y", "-", "1", ".", "1", "B">>, <<"b", "e", "r", "t", "-", "3", "5", "0", "M">>, <<"g", "p", "t", "2">>}
SizeTags == {<<>>, <<<<"7", "b">>>>, <<<<"g", "g", "u", "f">>, <<"8", "B">>>>, <<<<"g", "g", "u", "f">>>>}
SizeDescriptions == {<<>>, <<"a", " ", "1", "3", "B", " ", "m", "o", "d", "e", "l">>}
SizeFields == {Absent, <<"3", "B">>}
SizeIds == {<<"o", "/", "a">>, <<"o", "/", "x", "-", "7", "0", "b">>}

SizeInfos ==
    [name : SizeNames, tags : SizeTags, description : SizeDescriptions,
     size : SizeFields, id : SizeIds]

ExtractSize ==
    \E model_info \in SizeInfos :
        /\ last' = [op |-> "size", model_info |-> model_info,
                    result |-> extract_model_size(model_info)]
        /\ UNCHANGED <<scr, srv, mon, files, pre, pc, wq, meta, now, seen, env>>

NextSize == ExtractSize

SpecSize == InitIdle /\ [][NextSize]_vars

\* <number><B|M> in a text, whatever the case: the leftmost one, unit in upper
\* case, or NoMatch.
SizeIn(text) ==
    LET t == Lower(text)
        hits == {i \in 1..Len(t) : NumberAt(t, i, "b") # NoMatch \/ NumberAt(t, i, "m") # NoMatch}
        first == CHOOSE i \in hits : \A j \in hits : i <= j
    IN  IF hits = {} THEN NoMatch
        ELSE IF NumberAt(t, first, "b") # NoMatch THEN NumberAt(t, first, "b") \o <<"B">>
        ELSE NumberAt(t, first, "m") \o <<"M">>

RECURSIVE FirstSizeIn(_)
FirstSizeIn(texts) ==
    IF texts = <<>> THEN Absent
    ELSE IF SizeIn(Head(texts)) # NoMatch THEN SizeIn(Head(texts))
    ELSE FirstSizeIn(Tail(texts))

\* C17: the size label comes from the first of explicit size field, display
\* name, description and tags that holds <number><B|M>, and is absent when none
\* does.
C17_SizeExtraction ==
    last.op = "size" =>
        LET m == last.model_info
        IN  last.result =
                FirstSizeIn(<<GetOr(m.size, <<>>), m.name, m.description>> \o m.tags)

\* ----------------------------- searching while Hugging Face is unreachable

\* Answers with which both fetch_from_api and fetch_from_web fail.
FailingHubs ==
    {[api |-> ApiFail, web |-> WebFail],
     [api |-> ApiFail, web |-> WebOk(<<CardBad>>)],
     [api |-> ApiOk(<<RawNullId>>), web |-> WebFail]}

SearchOffline ==
    \E hub \in FailingHubs, query \in Queries, limit \in {1, DefaultLimit} :
        LET r == search_huggingface_models(files["hf"], hub, "ok", query, limit)
        IN  /\ files' = [files EXCEPT !["hf"] = r.file]
            /\ last' = SearchRecord(r.path, query, limit, r.result)
            /\ UNCHANGED <<scr, srv, mon, pre, pc, wq, meta, now, seen, env>>

NextOffline ==
    \/ SearchOffline
    \/ UpdateThenLoad

SpecOffline == InitIdle /\ [][NextOffline]_vars

\* C18: a search during which fetching the Hugging Face listings fails returns
\* an empty result and leaves the cache file as it was.
C18_EmptyOnError ==
    [][last'.op = "search" => (last'.result = <<>> /\ files' = files)]_vars

\* ------------------------------------------------- the default model (.env)

\* The text of a .env file is a sequence of tokens: names, values, "=", "#",
\* a blank and the line end.
Tok_NL == "\n"
Tok_SP == " "
Tok_EQ == "="
Tok_HASH == "#"
Tok_EXPORT == "export"
Key_OLLAMA_MODEL == "OLLAMA_MODEL"

IsSpace(t) == t \in {Tok_SP, Tok_NL}

RECURSIVE Lstrip(_)
Lstrip(s) == IF s # <<>> /\ IsSpace(Head(s)) THEN Lstrip(Tail(s)) ELSE s

RECURSIVE Rstrip(_)
Rstrip(s) ==
    IF s # <<>> /\ IsSpace(s[Len(s)]) THEN Rstrip(SubSeq(s, 1, Len(s) - 1)) ELSE s

Strip(s) == Rstrip(Lstrip(s))

\* "for line in f": the lines of a text, each with its line end when it has one.
RECURSIVE SplitLines(_)
SplitLines(text) ==
    IF text = <<>> THEN <<>>
    ELSE IF \E i \in 1..Len(text) : text[i] = Tok_NL
         THEN LET i == CHOOSE k \in 1..Len(text) :
                           text[k] = Tok_NL /\ \A j \in 1..(k - 1) : text[j] # Tok_NL
              IN  <<SubSeq(text, 1, i)>> \o SplitLines(SubSeq(text, i + 1, Len(text)))
         ELSE <<text>>

\* f.writelines(lines): the lines one after the other, nothing between them.
RECURSIVE writelines(_)
writelines(lines) ==
    IF lines = <<>> THEN <<>> ELSE Head(lines) \o writelines(Tail(lines))

\* line.strip().startswith("OLLAMA_MODEL=")
IsModelLine(line) ==
    LET s == Strip(line)
    IN  Len(s) >= 2 /\ s[1] = Key_OLLAMA_MODEL /\ s[2] = Tok_EQ

ModelLine(model_name) == <<Key_OLLAMA_MODEL, Tok_EQ, model_name, Tok_NL>>

\* set_default_model: the new text of the central .env file. example is the
\* text of env.example, copied when the central file does not exist.
set_default_model(central, example, model_name) ==
    LET start == IF central # NoEnv THEN central
                 ELSE IF example # NoEnv THEN example ELSE <<>>
        old == SplitLines(start)
        found == \E i \in 1..Len(old) : IsModelLine(old[i])
        lines == [i \in 1..Len(old) |->
                     IF IsModelLine(old[i]) THEN ModelLine(model_name) ELSE old[i]]
    IN  writelines(IF found THEN lines ELSE Append(lines, ModelLine(model_name)))

\* The value of an unquoted binding: an inline comment (blank, then #) and the
\* blanks at the end are dropped.
RECURSIVE CutComment(_)
CutComment(s) ==
    IF s = <<>> THEN <<>>
    ELSE IF IsSpace(Head(s)) /\ Lstrip(s) # <<>> /\ Head(Lstrip(s)) = Tok_HASH THEN <<>>
    ELSE <<Head(s)>> \o CutComment(Tail(s))

\* dotenv: the bindings of one line, none for a blank line, a comment or a
\* line that does not parse.
ParseLine(line) ==
    LET s0 == Strip(line)
        s == IF s0 # <<>> /\ Head(s0) = Tok_EXPORT THEN Lstrip(Tail(s0)) ELSE s0
    IN  IF s = <<>> \/ Head(s) \in {Tok_HASH, Tok_EQ} THEN <<>>
        ELSE LET rest == Lstrip(Tail(s))
             IN  IF rest = <<>> THEN <<[key |-> Head(s), value |-> None]>>
                 ELSE IF Head(rest) = Tok_EQ
                      THEN <<[key |-> Head(s),
                              value |-> Rstrip(CutComment(Lstrip(Tail(rest))))]>>
                      ELSE <<>>

\* dotenv.dotenv_values(path): the bindings of the file in order.
RECURSIVE BindingsOf(_)
BindingsOf(lines) ==
    IF lines = <<>> THEN <<>> ELSE ParseLine(Head(lines)) \o BindingsOf(Tail(lines))

dotenv_values(text) == BindingsOf(SplitLines(text))

HasKey(bindings, key) == \E i \in 1..Len(bindings) : bindings[i].key = key

\* dict semantics: the last binding of a key is its value.
EnvGet(bindings, key, default) ==
    IF HasKey(bindings, key)
    THEN LET i == CHOOSE k \in 1..Len(bindings) :
                      /\ bindings[k].key = key
                      /\ \A j \in (k + 1)..Len(bindings) : bindings[j].key # key
         IN  bindings[i].value
    ELSE default

get_default_model(central, local) ==
    LET env0 == IF central # NoEnv THEN dotenv_values(central) ELSE <<>>
        env1 == IF ~HasKey(env0, Key_OLLAMA_MODEL) /\ local # NoEnv
                THEN env0 \o dotenv_values(local) ELSE env0
        model == EnvGet(env1, Key_OLLAMA_MODEL, <<>>)
    IN  IF Falsy(model) THEN None ELSE model

DefaultModelNames == {"llama2", "phi"}

\* Texts a user may have put in the central .env file (or in env.example).
CentralTexts ==
    {<<>>,
     <<"FOO", Tok_EQ, "bar", Tok_NL>>,
     <<"FOO", Tok_EQ, "bar">>,
     <<Key_OLLAMA_MODEL, Tok_EQ, "old", Tok_NL>>,
     <<Key_OLLAMA_MODEL, Tok_EQ, "old">>,
     <<Key_OLLAMA_MODEL, Tok_EQ, "old", Tok_NL, "FOO", Tok_EQ, "bar", Tok_NL,
       Tok_SP, Key_OLLAMA_MODEL, Tok_EQ, "older", Tok_SP, Tok_HASH, "x", Tok_NL>>}

LocalTexts ==
    {<<Key_OLLAMA_MODEL, Tok_EQ, "loc", Tok_NL>>,
     <<"FOO", Tok_EQ, "bar", Tok_NL>>}

\* The user edits or removes one of the two .env files.
EditEnv ==
    \/ \E text \in CentralTexts \cup {NoEnv} :
           /\ env' = [env EXCEPT !.central = text]
           /\ last' = [op |-> "edit"]
           /\ UNCHANGED <<scr, srv, mon, files, pre, pc, wq, meta, now, seen>>
    \/ \E text \in LocalTexts \cup {NoEnv} :
           /\ env' = [env EXCEPT !.local = text]
           /\ last' = [op |-> "edit"]
           /\ UNCHANGED <<scr, srv, mon, files, pre, pc, wq, meta, now, seen>>

SetDefaultModel ==
    \E model_name \in DefaultModelNames, example \in {NoEnv, <<"FOO", Tok_EQ, "bar", Tok_NL>>} :
        /\ env' = [env EXCEPT
                       !.central = set_default_model(env.central, example, model_name)]
        /\ last' = [op |-> "set", model |-> <<model_name>>]
        /\ UNCHANGED <<scr, srv, mon, files, pre, pc, wq, meta, now, seen>>

GetDefaultModel ==
    /\ last' = [op |-> "get", result |-> get_default_model(env.central, env.local)]
    /\ UNCHANGED <<scr, srv, mon, files, pre, pc, wq, meta, now, seen, env>>

NextEnv ==
    \/ EditEnv
    \/ SetDefaultModel
    \/ GetDefaultModel

SpecEnv == InitIdle /\ [][NextEnv]_vars

\* C20: get_default_model() called right after set_default_model(m), m not
\* empty, returns m, whatever the two .env files contained before.
C20_DefaultModelRoundTrip ==
    [][(last.op = "set" /\ last'.op = "get") => last'.result = last.model]_vars

\* ------------------------------------------------------ the Ollama server

\* srv.process is None (0) or the number of the child the handle refers to;
\* srv.external says whether a server this instance did not start is running;
\* srv.observed, srv.spawned and srv.polls record what the start() in progress
\* (or the last one) saw from is_running, how many children it spawned and how
\* often it polled; srv.ret is what the last completed call returned.

\* for _ in range(10)
PollLimit == 10

AliveChildren(s) == {c \in 1..Len(s.children) : s.children[c] = "alive"}

\* is_running(): whether GET /api/version answers 200. A server must be there
\* to answer; a request can fail although one is there.
IsRunningOutcomes(s) ==
    IF s.external \/ AliveChildren(s) # {} THEN BOOLEAN ELSE {FALSE}

\* start(), the first is_running() check (lines 46-48).
start_check(s, up) ==
    IF up
    THEN [s EXCEPT !.call = "none", !.ret = "True", !.observed = TRUE,
                   !.spawned = 0, !.polls = 0]
    ELSE [s EXCEPT !.call = "spawn", !.observed = FALSE, !.spawned = 0, !.polls = 0]

\* start(), subprocess.Popen (lines 51-56, 73-75): the handle is assigned when
\* the child is there, and start returns False when Popen raises.
start_spawn(s, raises) ==
    IF raises
    THEN [s EXCEPT !.call = "none", !.ret = "False"]
    ELSE [s EXCEPT !.children = Append(@, "alive"), !.process = Len(s.children) + 1,
                   !.spawned = @ + 1, !.call = "poll"]

\* A polling loop that reports success when it gives up.
start_poll_hopeful(s, up) ==
    IF up \/ s.polls + 1 = PollLimit
    THEN [s EXCEPT !.polls = @ + 1, !.observed = up, !.call = "none", !.ret = "True"]
    ELSE [s EXCEPT !.polls = @ + 1, !.call = "poll"]

\* start(), one pass of the polling loop (lines 59-63).
start_poll(s, up) ==
    IF up
    THEN [s EXCEPT !.polls = @ + 1, !.observed = TRUE, !.call = "none", !.ret = "True"]
    ELSE [s EXCEPT !.polls = @ + 1,
                   !.call = IF s.polls + 1 = PollLimit THEN "timeout" ELSE "poll"]

\* start() after the loop (lines 66-75): communicate(timeout=5) returns when the
\* child has exited and raises TimeoutExpired, which is caught, when it has not;
\* False is returned both ways and the handle is kept.
start_timeout(s, exits) ==
    [s EXCEPT !.call = "none", !.ret = "False",
              !.children = IF exits /\ s.process # 0
                           THEN [@ EXCEPT ![s.process] = "exited"] ELSE @]

\* stop(): outcome is "stopped" (terminate and wait), "killed" (wait timed out,
\* kill and wait), "error" (terminate raised, caught) or "raised" (kill or wait
\* raised in the handler). finally sets the handle to None.
StopOutcomes == {"stopped", "killed", "error", "raised"}

\* A stop() without the finally clause: the handle survives a failed terminate.
stop_without_finally(s, outcome) ==
    IF s.process = 0 THEN [s EXCEPT !.ret = "stop"]
    ELSE [s EXCEPT !.process = IF outcome = "error" THEN @ ELSE 0,
                   !.ret = IF outcome = "raised" THEN "stop raised" ELSE "stop",
                   !.children = IF outcome \in {"stopped", "killed"}
                                THEN [@ EXCEPT ![s.process] = "exited"] ELSE @]

stop(s, outcome) ==
    IF s.process = 0 THEN [s EXCEPT !.ret = "stop"]
    ELSE [s EXCEPT !.process = 0,
                   !.ret = IF outcome = "raised" THEN "stop raised" ELSE "stop",
                   !.children = IF outcome \in {"stopped", "killed"}
                                THEN [@ EXCEPT ![s.process] = "exited"] ELSE @]

ServerFrame == UNCHANGED <<scr, files, pre, last, pc, wq, meta, now, seen, env, mon>>

\* A caller calls start() (also __enter__).
StartCheck ==
    /\ srv.call = "none"
    /\ \E up \in IsRunningOutcomes(srv) : srv' = start_check(srv, up)
    /\ ServerFrame

StartSpawn ==
    /\ srv.call = "spawn"
    /\ \E raises \in IF Len(srv.children) < MaxChildren THEN BOOLEAN ELSE {TRUE} :
           srv' = start_spawn(srv, raises)
    /\ ServerFrame

StartPoll ==
    /\ srv.call = "poll"
    /\ \E up \in IsRunningOutcomes(srv) : srv' = start_poll(srv, up)
    /\ ServerFrame

StartTimeout ==
    /\ srv.call = "timeout"
    /\ \E exits \in BOOLEAN : srv' = start_timeout(srv, exits)
    /\ ServerFrame

\* A caller calls stop() (also __exit__).
Stop ==
    /\ srv.call = "none"
    /\ \E outcome \in StopOutcomes : srv' = stop(srv, outcome)
    /\ ServerFrame

\* restart(): stop(), then start() from its first check.
RestartServer ==
    /\ srv.call = "none"
    /\ \E outcome \in StopOutcomes \ {"raised"} :
           \E up \in IsRunningOutcomes(stop(srv, outcome)) :
               srv' = start_check(stop(srv, outcome), up)
    /\ ServerFrame

\* A child exits by itself (say, the port is taken).
ChildExits ==
    /\ \E c \in AliveChildren(srv) : srv' = [srv EXCEPT !.children[c] = "exited"]
    /\ ServerFrame

\* Somebody else starts or stops an Ollama server on the machine.
ExternalServer ==
    /\ srv' = [srv EXCEPT !.external = ~@]
    /\ ServerFrame

NextServer ==
    \/ StartCheck
    \/ StartSpawn
    \/ StartPoll
    \/ StartTimeout
    \/ Stop
    \/ RestartServer
    \/ ChildExits
    \/ ExternalServer

SpecServer == InitIdle /\ [][NextServer]_vars

\* C22: stop() with no process handle changes nothing; otherwise it touches
\* only the child the handle refers to, never a server somebody else started
\* nor another child; and the handle is None afterwards whatever terminate did.
C22_StopOnlyOwnChild ==
    [][Stop =>
          /\ srv'.process = 0
          /\ srv'.external = srv.external
          /\ Len(srv'.children) = Len(srv.children)
          /\ \A c \in 1..Len(srv.children) :
                 c # srv.process => srv'.children[c] = srv.children[c]
          /\ srv.process = 0 => srv'.children = srv.children]_vars

\* A stop() whose terminate raised has returned: the child is still alive, the
\* handle is None, and a server of somebody else is running.
C22_Witness ==
    /\ srv.ret = "stop"
    /\ srv.call = "none"
    /\ srv.process = 0
    /\ srv.external
    /\ AliveChildren(srv) # {}

\* C23: start() returns True only if is_running() was seen true during the
\* call; when the first check is true nothing is spawned; otherwise exactly one
\* child is spawned and is_running is polled at most 10 times; and False is
\* returned when Popen raised or when none of the 10 polls succeeded.
C23_StartContract ==
    /\ srv.spawned <= 1
    /\ srv.polls <= PollLimit
    /\ (srv.call = "none" /\ srv.ret = "True") =>
           /\ srv.observed
           /\ (srv.spawned = 0 <=> srv.polls = 0)
    /\ (srv.call = "none" /\ srv.ret = "False") =>
           /\ ~srv.observed
           /\ \/ srv.spawned = 0 /\ srv.polls = 0
              \/ srv.spawned = 1 /\ srv.polls = PollLimit

\* start() has spawned a child and returned True on the last of the 10 polls.
C23_Witness ==
    /\ srv.call = "none"
    /\ srv.ret = "True"
    /\ srv.spawned = 1
    /\ srv.polls = PollLimit

\* C28: at most one spawned child is alive at a time, and the handle of a child
\* changes only to None (in stop), never to another child.
C28_SingleChild ==
    [][/\ Cardinality(AliveChildren(srv')) <= 1
       /\ (srv.process # 0 /\ srv'.process # srv.process) => srv'.process = 0]_vars

\* ------------------------------------------------------------ the CLI, main()

\* What main() calls, in order, and what it returns. args are the parsed
\* arguments (search and prompt are None or a text); inp is what the calls
\* answer: the model picked in the search (None when none), the answer to
\* "install this model now?", whether install_model succeeds and whether
\* check_ollama finds a version.
main_body(args, inp, mock) ==
    IF ~Falsy(args.search) \/ args.update_hf
    THEN IF ~Falsy(args.search)
         THEN LET searched == <<IF mock THEN "interactive_model_search(check_ollama=False)"
                                ELSE "interactive_model_search(check_ollama=True)">>
              IN  IF Falsy(inp.selected) \/ ~inp.install_now
                  THEN [calls |-> searched \o (IF Falsy(inp.selected) THEN <<>> ELSE <<"confirm">>),
                        ret |-> 0]
                  ELSE IF mock
                       THEN [calls |-> searched \o <<"confirm", "print simulated">>, ret |-> 0]
                       ELSE [calls |-> searched \o <<"confirm", "install_model">>,
                             ret |-> IF inp.install_ok THEN 0 ELSE 1]
         ELSE [calls |-> <<"update_models_from_huggingface">>, ret |-> 0]
    ELSE IF args.interactive
    THEN [calls |-> <<IF mock THEN "interactive_shell(mock_mode=True)"
                      ELSE "interactive_shell(mock_mode=False)">>,
          ret |-> 0]
    ELSE IF ~Falsy(args.prompt)
    THEN IF ~mock /\ ~inp.ollama_version
         THEN [calls |-> <<"check_ollama">>, ret |-> 1]
         ELSE [calls |-> (IF mock THEN <<"MockOllamaIntegration">>
                          ELSE <<"check_ollama", "get_ollama_integration">>)
                         \o <<"query_ollama">>
                         \o (IF args.save THEN <<"save_code_to_file">> ELSE <<>>)
                         \o (IF args.run THEN <<"execute_code">> ELSE <<>>),
               ret |-> 0]
    ELSE [calls |-> <<"print_help">>, ret |-> 1]

\* A main() that does not look at --mock.
main_unmocked(args, inp) == main_body(args, inp, FALSE)

main(args, inp) == main_body(args, inp, args.mock)

CliArgs ==
    [mock : BOOLEAN, search : {None, <<>>, <<"q">>}, update_hf : BOOLEAN,
     interactive : BOOLEAN, prompt : {<<>>, <<"p">>}, save : {FALSE}, run : BOOLEAN]

CliInputs ==
    [selected : {None, <<"o", "/", "m">>}, install_now : BOOLEAN,
     install_ok : BOOLEAN, ollama_version : BOOLEAN]

RunMain ==
    \E args \in CliArgs, inp \in CliInputs :
        /\ last' = [op |-> "main", args |-> args, inp |-> inp,
                    calls |-> main(args, inp).calls, ret |-> main(args, inp).ret]
        /\ UNCHANGED <<scr, files, pre, pc, wq, meta, now, seen, env, srv, mon>>

NextCli == RunMain

SpecCli == InitIdle /\ [][NextCli]_vars

CalledIn(calls, name) == \E i \in 1..Len(calls) : calls[i] = name

\* C21: with --mock, main() calls none of check_ollama, get_ollama_integration
\* and install_model, and a confirmed installation is only simulated, main
\* returning 0.
C21_MockNeedsNoOllama ==
    (last.op = "main" /\ last.args.mock) =>
        /\ ~CalledIn(last.calls, "check_ollama")
        /\ ~CalledIn(last.calls, "get_ollama_integration")
        /\ ~CalledIn(last.calls, "install_model")
        /\ ~CalledIn(last.calls, "interactive_model_search(check_ollama=True)")
        /\ (~Falsy(last.args.search) /\ ~Falsy(last.inp.selected) /\ last.inp.install_now) =>
               /\ CalledIn(last.calls, "print simulated")
               /\ last.ret = 0

\* main() has run with --mock and --search, a model was picked and the
\* installation confirmed, while install_model would have failed.
C21_Witness ==
    /\ last.op = "main"
    /\ last.args.mock
    /\ ~Falsy(last.args.search)
    /\ ~Falsy(last.inp.selected)
    /\ last.inp.install_now
    /\ ~last.inp.install_ok
    /\ last.ret = 0

\* ------------------------------------------------------ the Ollama monitor

\* mon.prev_fingerprint is main's prev_fingerprint, mon.count the number of
\* snapshot files written so far and mon.latest the models of the newest one.
\* A scraped model is a record of name, url, description, sizes and tags; the
\* metadata dict is fingerprinted by its sorted items and is left out.

\* sorted(list of str)
RECURSIVE InsertStr(_, _)
InsertStr(x, sorted) ==
    IF sorted = <<>> THEN <<x>>
    ELSE IF StrLeq(Head(sorted), x) THEN <<Head(sorted)>> \o InsertStr(x, Tail(sorted))
    ELSE <<x>> \o sorted

RECURSIVE sorted_strs(_)
sorted_strs(list) ==
    IF list = <<>> THEN <<>>
    ELSE InsertStr(list[Len(list)], sorted_strs(SubSeq(list, 1, Len(list) - 1)))

\* sorted(models, key=lambda x: x.get('name', '').lower()): a stable sort, so
\* models with equal keys stay in the order they came in.
RECURSIVE InsertByName(_, _)
InsertByName(x, sorted) ==
    IF sorted = <<>> THEN <<x>>
    ELSE IF StrLeq(Lower(Head(sorted).name), Lower(x.name))
         THEN <<Head(sorted)>> \o InsertByName(x, Tail(sorted))
         ELSE <<x>> \o sorted

RECURSIVE sorted_by_name(_)
sorted_by_name(models) ==
    IF models = <<>> THEN <<>>
    ELSE InsertByName(models[Len(models)], sorted_by_name(SubSeq(models, 1, Len(models) - 1)))

\* model_data of get_models_fingerprint.
model_data(model) ==
    [name |-> model.name, description |-> model.description,
     sizes |-> sorted_strs(model.sizes), tags |-> sorted_strs(model.tags)]

\* get_models_fingerprint: None for no models; otherwise the hash of the tuple
\* of the model_data, which stands here for the tuple itself (equal tuples
\* have equal hashes in one process).
get_models_fingerprint(models) ==
    IF models = <<>> THEN NoFingerprint
    ELSE [hash |-> [i \in 1..Len(models) |-> model_data(sorted_by_name(models)[i])]]

\* A save that skips the comparison with the previous fingerprint.
save_models_data_always(models, prev_fingerprint, io) ==
    IF models = <<>> THEN [written |-> FALSE, fingerprint |-> NoFingerprint, data |-> <<>>]
    ELSE [written |-> io = "ok",
          fingerprint |-> get_models_fingerprint(sorted_by_name(models)),
          data |-> sorted_by_name(models)]

\* save_models_data: whether a file was written (filename is not None), the
\* fingerprint returned and the models written. io # "ok" makes the write raise.
save_models_data(models, prev_fingerprint, io) ==
    IF models = <<>> THEN [written |-> FALSE, fingerprint |-> NoFingerprint, data |-> <<>>]
    ELSE LET sorted_models == sorted_by_name(models)
             current_fingerprint == get_models_fingerprint(sorted_models)
         IN  IF current_fingerprint # NoFingerprint /\ current_fingerprint # prev_fingerprint
                /\ io = "ok"
             THEN [written |-> TRUE, fingerprint |-> current_fingerprint,
                   data |-> sorted_models]
             ELSE [written |-> FALSE, fingerprint |-> current_fingerprint, data |-> <<>>]

\* One pass of the loop of main(), given what scrape_models returned.
monitor_poll(m, models, io) ==
    IF models = <<>> THEN m
    ELSE LET r == save_models_data(models, m.prev_fingerprint, io)
         IN  [prev_fingerprint |-> r.fingerprint,
              count |-> IF r.written THEN m.count + 1 ELSE m.count,
              latest |-> IF r.written THEN r.data ELSE m.latest]

MonLlama == [name |-> <<"L", "l", "a", "m", "a">>, url |-> <<"u">>, description |-> <<"d">>,
             sizes |-> <<>>, tags |-> <<>>]
MonLlamaLower == [name |-> <<"l", "l", "a", "m", "a">>, url |-> <<"u">>,
                  description |-> <<"e">>, sizes |-> <<>>, tags |-> <<>>]
MonPhi == [name |-> <<"p", "h", "i">>, url |-> <<"u">>, description |-> <<>>,
           sizes |-> <<<<"7", "b">>, <<"1", "b">>>>, tags |-> <<<<"b">>, <<"a">>>>]
MonPhiPermuted == [name |-> <<"p", "h", "i">>, url |-> <<"u">>, description |-> <<>>,
                   sizes |-> <<<<"1", "b">>, <<"7", "b">>>>, tags |-> <<<<"a">>, <<"b">>>>]

\* What scrape_models may return.
ScrapedLists ==
    {<<>>, <<MonLlama>>, <<MonPhi>>, <<MonPhiPermuted>>,
     <<MonLlama, MonPhi>>, <<MonPhi, MonLlama>>,
     <<MonLlama, MonLlamaLower>>, <<MonLlamaLower, MonLlama>>,
     <<MonLlamaLower>>, <<MonPhiPermuted, MonLlama>>}

MonitorPoll ==
    /\ mon.count < MaxSnapshots
    /\ \E models \in ScrapedLists, io \in {"ok", "fail"} :
           /\ mon' = monitor_poll(mon, models, io)
           /\ last' = [op |-> "poll", models |-> models, io |-> io,
                       wrote |-> monitor_poll(mon, models, io).count # mon.count]
    /\ UNCHANGED <<scr, files, pre, pc, wq, meta, now, seen, env, srv>>

NextMonitor == MonitorPoll

SpecMonitor == InitIdle /\ [][NextMonitor]_vars

C27_FingerprintOfNewestSnapshot ==
    mon.prev_fingerprint =
        IF mon.count = 0 THEN NoFingerprint ELSE get_models_fingerprint(mon.latest)

\* --------------------------------------------- fingerprints of two listings

FingerprintPair ==
    \E a \in ScrapedLists, b \in ScrapedLists :
        /\ last' = [op |-> "fingerprint", a |-> a, b |-> b,
                    fa |-> get_models_fingerprint(a), fb |-> get_models_fingerprint(b)]
        /\ UNCHANGED <<scr, files, pre, pc, wq, meta, now, seen, env, srv, mon>>

NextFingerprint == FingerprintPair

SpecFingerprint == InitIdle /\ [][NextFingerprint]_vars

\* s is a rearrangement of t.
IsPermutation(s, t) ==
    /\ Len(s) = Len(t)
    /\ \E f \in [1..Len(s) -> 1..Len(s)] :
           /\ \A i, j \in 1..Len(s) : f[i] = f[j] => i = j
           /\ \A i \in 1..Len(s) : s[i] = t[f[i]]

\* Two model records that differ at most in the order of their tags and sizes.
SameRecord(x, y) ==
    /\ x.name = y.name
    /\ x.url = y.url
    /\ x.description = y.description
    /\ IsPermutation(x.sizes, y.sizes)
    /\ IsPermutation(x.tags, y.tags)

\* Two listings holding the same records in some order.
SameListing(a, b) ==
    /\ Len(a) = Len(b)
    /\ \E f \in [1..Len(a) -> 1..Len(a)] :
           /\ \A i, j \in 1..Len(a) : f[i] = f[j] => i = j
           /\ \A i \in 1..Len(a) : SameRecord(a[i], b[f[i]])

\* C29: two non-empty listings with the same records, in any order and with
\* tags and sizes in any order, have the same fingerprint; the fingerprint is
\* None only for the empty listing.
C29_FingerprintOrderIndependent ==
    last.op = "fingerprint" =>
        /\ (last.a # <<>> /\ SameListing(last.a, last.b)) => last.fa = last.fb
        /\ last.fa = NoFingerprint <=> last.a = <<>>

\* ------------------------------------------------- searches with small limits

LimitQueries == {None, <<"d">>, <<"b">>, <<"n">>, <<"z">>}

SearchLimited ==
    \E hub \in SearchHubs, query \in LimitQueries, limit \in 0..MaxLimit :
        LET r == search_huggingface_models(files["hf"], hub, "ok", query, limit)
        IN  /\ files' = [files EXCEPT !["hf"] = r.file]
            /\ last' = SearchRecord(r.path, query, limit, r.result)
            /\ UNCHANGED <<scr, pre, pc, wq, meta, now, seen, env, srv, mon>>

NextLimit == SearchLimited

SpecLimit == InitIdle /\ [][NextLimit]_vars

\* C24: search_huggingface_models(query, limit) returns at most limit records
\* on every path.
C24_AtMostLimit ==
    last.op = "search" => Len(last.result) <= last.limit

\* ------------------------------------------------ the loops of scrape_all_models

\* scr.phase is "idle", "pages" (in the while loop), "categories" (in the for
\* loop of scrape_all_categories) or "done" (merged and returned). scr.page is
\* the loop variable page, scr.visited the number of scrape_library_page calls
\* of the while loop, scr.yielded whether the last of them returned models,
\* scr.category the index of the next category and scr.category_visits how
\* often search_models was called for each category.

\* scrape_all_models is called: page = 1.
scrape_begin ==
    [phase |-> "pages", page |-> 1, visited |-> 0, yielded |-> TRUE, category |-> 1,
     category_visits |-> [i \in 1..Len(categories) |-> 0]]

\* A page loop that goes on to the next page whatever the page held.
page_step_no_break(c, yields) ==
    IF c.page > max_pages THEN [c EXCEPT !.phase = "categories"]
    ELSE [c EXCEPT !.visited = @ + 1, !.yielded = yields, !.page = @ + 1]

\* One test of "while page <= max_pages" and, when it holds, one pass of the
\* loop body; yields says whether scrape_library_page(page) returned models.
page_step(c, yields) ==
    IF c.page > max_pages THEN [c EXCEPT !.phase = "categories"]
    ELSE IF ~yields THEN [c EXCEPT !.visited = @ + 1, !.yielded = FALSE,
                                   !.phase = "categories"]
    ELSE [c EXCEPT !.visited = @ + 1, !.yielded = TRUE, !.page = @ + 1]

\* One pass of "for category in categories", or its end and the merge.
category_step(c) ==
    IF c.category > Len(categories) THEN [c EXCEPT !.phase = "done"]
    ELSE [c EXCEPT !.category_visits[c.category] = @ + 1, !.category = @ + 1]

ScrapeFrame == UNCHANGED <<files, pre, last, pc, wq, meta, now, seen, env, srv, mon>>

ScrapeBegin ==
    /\ scr.phase \in {"idle", "done"}
    /\ scr' = scrape_begin
    /\ ScrapeFrame

ScrapePageStep ==
    /\ scr.phase = "pages"
    /\ \E yields \in BOOLEAN : scr' = page_step(scr, yields)
    /\ ScrapeFrame

ScrapeCategoryStep ==
    /\ scr.phase = "categories"
    /\ scr' = category_step(scr)
    /\ ScrapeFrame

NextCrawl ==
    \/ ScrapeBegin
    \/ ScrapePageStep
    \/ ScrapeCategoryStep

\* The call runs in one thread and every page load has a timeout, so a step
\* that can be taken is taken.
SpecCrawl == InitIdle /\ [][NextCrawl]_vars /\ WF_vars(NextCrawl)

\* C26: scrape_all_models terminates; its page loop visits at most 50 pages
\* and stops at the first page that yields no models; and when it returns, each
\* of the fixed categories has been visited exactly once.
C26_ScrapeTerminates ==
    /\ [](scr.visited <= max_pages)
    /\ [][(scr.phase = "pages" /\ scr'.visited = scr.visited + 1 /\ ~scr'.yielded)
              => scr'.phase = "categories"]_vars
    /\ [](scr.phase = "done" =>
              \A i \in 1..Len(categories) : scr.category_visits[i] = 1)
    /\ (scr.phase = "pages") ~> (scr.phase = "done")

\* A call has returned after 50 pages that all yielded models.
C26_Witness ==
    /\ scr.phase = "done"
    /\ scr.visited = max_pages
    /\ scr.yielded

====
